---- MODULE Spec2Model ----
(***************************************************************************)
(* Emission models (Bernoulli, BernoulliNan, Multinoulli) of the lca and   *)
(* stepmix packages and the helpers identify_coef, modal and               *)
(* check_emission_param of stepmix.utils.                                  *)
(*                                                                         *)
(* Numbers.  A float is modelled exactly as one of                         *)
(*   [k |-> "fin", n, d, e]   the value n/d + e * 1e-15 (n/d in lowest     *)
(*                            terms, d > 0),                               *)
(*   [k |-> "inf", ...]       +infinity,                                   *)
(*   [k |-> "nan", ...]       NaN.                                         *)
(* All rationals of the model have denominators far below 1e15, so the     *)
(* order on n/d + e * 1e-15 is the lexicographic one.  Rounding of the     *)
(* floating-point operations is not modelled.                              *)
(*                                                                         *)
(* Responsibilities are stored as integer multiples of 1/Unit: the entry   *)
(* resp[n][c] = u stands for the probability u/Unit.                       *)
(***************************************************************************)
EXTENDS Integers, Sequences, FiniteSets

VARIABLES
    op,        \* which entry point the run is about
    phase,     \* position of the run: "Initialized", "Fitted", "called", "returned"
    kind,      \* emission class, "<package>.<class>"
    X,         \* observation matrix, rows are individuals
    resp,      \* responsibility matrix (units of 1/Unit) / argument of modal
    resp_in,   \* copy of resp taken at the call
    n_outcomes,\* Multinoulli: L, outcomes per feature block
    pis,       \* self.parameters['pis'], <<>> before the first m_step
    log_eps,   \* result of log_likelihood, <<>> before the call
    n_params,  \* result of n_parameters, -1 before the call
    sampled,   \* sample: its arguments and what it returned or raised
    coef,      \* identify_coef: the array passed in (mutated in place)
    coef_in,   \* identify_coef: copy of the argument taken at the call
    closest_id,\* identify_coef: the chosen reference column, 0 before the call
    clip,      \* modal: the clip argument
    modal_resp,\* modal: the returned matrix
    descriptor,\* check_emission_param: descriptor argument
    keys,      \* check_emission_param: keys argument
    outcome    \* check_emission_param: "none", "ok" or "ValueError"

vars == <<op, phase, kind, X, resp, resp_in, n_outcomes, pis, log_eps, n_params, sampled, coef, coef_in, closest_id, clip, modal_resp, descriptor, keys, outcome>>

emissionVars == <<kind, X, n_outcomes, pis, log_eps, n_params, sampled>>
coefVars == <<coef, coef_in, closest_id>>
modalVars == <<clip, modal_resp>>
paramVars == <<descriptor, keys, outcome>>

(***************************************************************************)
(* Bounds of the model.                                                    *)
(***************************************************************************)
\* number of individuals (rows of X and of resp)
MaxN == 2
\* number of features K of a Bernoulli / BernoulliNan model
MaxK == 1
\* largest number of feature blocks K of a Multinoulli model
MaxBlocks == 2
\* largest number of columns K*L of a one-hot encoded X
MaxWidth == 4
\* largest number of outcomes L of a Multinoulli feature
MaxL == 3
\* resolution of the responsibilities: entries are multiples of 1/Unit
Unit == 2

\* number of latent classes C: the default of Multinoulli.__init__
n_components == 2
\* the marker of a missing entry of X (np.nan)
nan == 2
\* identify_coef: entries of coef range over -MaxCoef..MaxCoef
MaxCoef == 2
\* check_emission_param: largest number of items of a nested descriptor
MaxItems == 2
\* sample: largest n_samples
MaxSamples == 2
\* number of classes of the covariate demo (n_components=3)
demo_n_components == 3
\* rows of the demo's coef: the coefficient row coef[0] and the intercept row coef[1]
demo_coef_rows == 2

Classes == 1..n_components
Individuals == 1..MaxN

(***************************************************************************)
(* Exact arithmetic with NaN, +inf and the clip offset 1e-15               *)
(***************************************************************************)
RECURSIVE GCD(_, _)
GCD(a, b) == IF b = 0 THEN a ELSE GCD(b, a % b)

NaN == [k |-> "nan", n |-> 0, d |-> 1, e |-> 0]
PosInf == [k |-> "inf", n |-> 0, d |-> 1, e |-> 0]
Rat(a, b) == LET g == GCD(a, b) IN [k |-> "fin", n |-> a \div g, d |-> b \div g, e |-> 0]
Zero == [k |-> "fin", n |-> 0, d |-> 1, e |-> 0]
One == [k |-> "fin", n |-> 1, d |-> 1, e |-> 0]

\* a / b of two non-negative floats given as integer multiples of 1/Unit:
\* numpy yields nan for 0/0 and inf for x/0 (with a RuntimeWarning only)
Div(a, b) ==
    IF b = 0 THEN (IF a = 0 THEN NaN ELSE PosInf)
    ELSE IF a = 0 THEN Zero ELSE Rat(a, b)

\* 1e-15 and 1 - 1e-15
ClipLo == [k |-> "fin", n |-> 0, d |-> 1, e |-> 1]
ClipHi == [k |-> "fin", n |-> 1, d |-> 1, e |-> -1]

\* a < b for finite values
Less(a, b) ==
    \/ a.n * b.d < b.n * a.d
    \/ a.n * b.d = b.n * a.d /\ a.e < b.e

\* np.clip(v, lo, hi) = minimum(maximum(v, lo), hi); NaN propagates
Clip(v, lo, hi) ==
    IF v.k = "nan" THEN NaN
    ELSE IF v.k = "inf" THEN hi
    ELSE IF Less(v, lo) THEN lo
    ELSE IF Less(hi, v) THEN hi
    ELSE v

ClipMatrix(m, lo, hi) == [i \in DOMAIN m |-> [c \in DOMAIN m[i] |-> Clip(m[i][c], lo, hi)]]

\* sum of f[1..n]
RECURSIVE SumSeq(_, _)
SumSeq(f, n) == IF n = 0 THEN 0 ELSE f[n] + SumSeq(f, n - 1)

(***************************************************************************)
(* Matrices                                                                *)
(***************************************************************************)
Shape0(m) == Len(m)
Shape1(m) == IF Len(m) = 0 THEN 0 ELSE Len(m[1])

\* ~np.isnan(X)
IsObserved(x) == [n \in DOMAIN x |-> [i \in DOMAIN x[n] |-> x[n][i] # nan]]
\* np.nan_to_num(X)
NanToNum(x) == [n \in DOMAIN x |-> [i \in DOMAIN x[n] |-> IF x[n][i] = nan THEN 0 ELSE x[n][i]]]

\* (X.T @ resp)[i][c] summed over the first n individuals, in units of 1/Unit
RECURSIVE Dot(_, _, _, _, _)
Dot(x, r, i, c, n) == IF n = 0 THEN 0 ELSE x[n][i] * r[n][c] + Dot(x, r, i, c, n - 1)

\* X.T @ resp for X without missing entries
XT_resp(x, r) == [i \in 1..Shape1(x) |-> [c \in 1..Shape1(r) |-> Dot(x, r, i, c, Len(x))]]

\* resp.sum(axis=0), in units of 1/Unit
ColSum(r) == [c \in 1..Shape1(r) |-> SumSeq([n \in 1..Len(r) |-> r[n][c]], Len(r))]

\* resp[mask]: the rows of r selected by the boolean vector mask, as column sums
MaskedColSum(r, mask) ==
    [c \in 1..Shape1(r) |-> SumSeq([n \in 1..Len(r) |-> IF mask[n] THEN r[n][c] ELSE 0], Len(r))]

HasNan(x) == \E n \in DOMAIN x : \E i \in DOMAIN x[n] : x[n][i] = nan

(***************************************************************************)
(* Emission models                                                         *)
(***************************************************************************)
EmissionKinds == {"stepmix.Bernoulli", "stepmix.BernoulliNan", "stepmix.Multinoulli", "lca.Bernoulli", "lca.Multinoulli"}
IsMultinoulli(kd) == kd \in {"stepmix.Multinoulli", "lca.Multinoulli"}

\* q[i][c] = a[i][c] / b[c]: the in-place division by a row vector (broadcast)
DivRows(a, b) == [i \in DOMAIN a |-> [c \in DOMAIN a[i] |-> Div(a[i][c], b[c])]]

\* stepmix Bernoulli.m_step
Bernoulli_m_step(x, r) ==
    LET pis0 == XT_resp(x, r)
        pis1 == DivRows(pis0, ColSum(r))
    IN ClipMatrix(pis1, ClipLo, ClipHi)

\* a slip: the ratio is taken against the total mass resp.sum() of all classes
Multinoulli_m_step_total(x, r) ==
    LET pis0 == XT_resp(x, r)
        pis1 == DivRows(pis0, [c \in 1..Shape1(r) |-> SumSeq(ColSum(r), Shape1(r))])
    IN ClipMatrix(pis1, ClipLo, ClipHi)

\* stepmix Multinoulli.m_step
Multinoulli_m_step(x, r) ==
    LET pis0 == XT_resp(x, r)
        pis1 == DivRows(pis0, ColSum(r))
    IN ClipMatrix(pis1, ClipLo, ClipHi)

\* lca Bernoulli.m_step
Lca_Bernoulli_m_step(x, r) ==
    LET pis0 == XT_resp(x, r)
        pis1 == DivRows(pis0, ColSum(r))
    IN ClipMatrix(pis1, ClipLo, ClipHi)

\* lca Multinoulli.m_step
Lca_Multinoulli_m_step(x, r) ==
    LET pis0 == XT_resp(x, r)
        pis1 == DivRows(pis0, ColSum(r))
    IN ClipMatrix(pis1, ClipLo, ClipHi)

\* a slip: the normalizer ignores the mask and sums every individual
ObservedMass_all(x, r, i) == ColSum(r)

\* the normalizer of feature i: resp[is_observed[:, i]].sum(axis=0)
ObservedMass(x, r, i) ==
    LET is_observed == IsObserved(x)
    IN MaskedColSum(r, [n \in 1..Len(x) |-> is_observed[n][i]])

BernoulliNan_m_step(x, r) ==
    LET num == XT_resp(NanToNum(x), r)
    IN [i \in DOMAIN num |-> [c \in DOMAIN num[i] |-> Div(num[i][c], ObservedMass(x, r, i)[c])]]

m_step(kd, x, r) ==
    CASE kd = "stepmix.Bernoulli" -> Bernoulli_m_step(x, r)
      [] kd = "stepmix.BernoulliNan" -> BernoulliNan_m_step(x, r)
      [] kd = "stepmix.Multinoulli" -> Multinoulli_m_step(x, r)
      [] kd = "lca.Bernoulli" -> Lca_Bernoulli_m_step(x, r)
      [] kd = "lca.Multinoulli" -> Lca_Multinoulli_m_step(x, r)

(* A log-likelihood entry log_eps[n][c] is kept as the linear form it is   *)
(* computed as: terms[i] = <<a, b>> stands for                             *)
(*     a * log(p[i][c]) + b * log(1 - p[i][c]),   p = the clipped pis,     *)
(* and the entry is the sum of its terms.  After the clip every log is     *)
(* finite unless p[i][c] is NaN, and then the matrix product is NaN in     *)
(* every row of column c (0 * NaN = NaN).                                  *)
LLNaN == [k |-> "nan", terms |-> <<>>]
LLFin(t) == [k |-> "fin", terms |-> t]

Bernoulli_log_likelihood(x, p0) ==
    LET p == ClipMatrix(p0, ClipLo, ClipHi)
    IN [n \in 1..Len(x) |-> [c \in 1..Shape1(p) |->
          IF \E i \in 1..Len(p) : p[i][c].k = "nan" \/ x[n][i] = nan
          THEN LLNaN
          ELSE LLFin([i \in 1..Len(p) |-> <<x[n][i], 1 - x[n][i]>>])]]

BernoulliNan_log_likelihood(x, p0) ==
    LET is_observed == IsObserved(x)
        xz == NanToNum(x)
        p == ClipMatrix(p0, ClipLo, ClipHi)
    IN [n \in 1..Len(x) |-> [c \in 1..Shape1(p) |->
          IF \E i \in 1..Len(p) : p[i][c].k = "nan"
          THEN LLNaN
          ELSE LLFin([i \in 1..Len(p) |->
                   <<xz[n][i], (1 - xz[n][i]) * (IF is_observed[n][i] THEN 1 ELSE 0)>>])]]

Multinoulli_log_likelihood(x, p0) ==
    LET p == ClipMatrix(p0, ClipLo, ClipHi)
    IN [n \in 1..Len(x) |-> [c \in 1..Shape1(p) |->
          IF \E i \in 1..Len(p) : p[i][c].k = "nan"
          THEN LLNaN
          ELSE LLFin([i \in 1..Len(p) |-> <<x[n][i], 0>>])]]

log_likelihood(kd, x, p0) ==
    CASE kd \in {"stepmix.Bernoulli", "lca.Bernoulli"} -> Bernoulli_log_likelihood(x, p0)
      [] kd = "stepmix.BernoulliNan" -> BernoulliNan_log_likelihood(x, p0)
      [] IsMultinoulli(kd) -> Multinoulli_log_likelihood(x, p0)

\* self.parameters['pis'].shape[0] * self.parameters['pis'].shape[1]
Bernoulli_n_parameters(p) == Shape0(p) * Shape1(p)
Multinoulli_n_parameters(p) == Shape0(p) * Shape1(p)

n_parameters(kd, p) ==
    IF IsMultinoulli(kd) THEN Multinoulli_n_parameters(p) ELSE Bernoulli_n_parameters(p)

\* K of Multinoulli.get_KL: int(KL / L)
get_K(p, L) == Shape0(p) \div L

(***************************************************************************)
(* Inputs of the emission models                                           *)
(***************************************************************************)
\* rows of a responsibility matrix: simplex points on the grid of 1/Unit
RespRows == {r \in [Classes -> 0..Unit] : SumSeq(r, n_components) = Unit}
RespSet == [Individuals -> RespRows]

BinaryX == [Individuals -> [1..MaxK -> {0, 1}]]
MissingX == [Individuals -> [1..MaxK -> {0, 1, nan}]]
\* one-hot rows: feature k takes outcome f[k], column (k-1)*L + f[k] is active
OneHotRows(K, L) ==
    {[j \in 1..(K * L) |-> IF f[((j - 1) \div L) + 1] = ((j - 1) % L) + 1 THEN 1 ELSE 0] :
        f \in [1..K -> 1..L]}
OneHotX(K, L) == [Individuals -> OneHotRows(K, L)]

\* <<K, L>>: the numbers of features and of outcomes (L = 0: not one-hot)
Shapes(kd) ==
    IF IsMultinoulli(kd)
    THEN {sh \in (1..MaxBlocks) \X (2..MaxL) : sh[1] * sh[2] <= MaxWidth}
    ELSE {<<MaxK, 0>>}

XSet(kd, K, L) ==
    IF IsMultinoulli(kd) THEN OneHotX(K, L)
    ELSE IF kd = "stepmix.BernoulliNan" THEN MissingX
    ELSE BinaryX

NoDescriptor == [type |-> "none", name |-> "", items |-> <<>>]

IdleCoef == coef = <<>> /\ coef_in = <<>> /\ closest_id = 0
IdleModal == clip = FALSE /\ modal_resp = <<>>
IdleParam == descriptor = NoDescriptor /\ keys = {} /\ outcome = "none"
NoSample == [status |-> "none", class_no |-> 0, n_samples |-> 0, X |-> <<>>]
IdleEmission == kind = "none" /\ X = <<>> /\ n_outcomes = 0 /\ pis = <<>> /\ log_eps = <<>> /\ n_params = -1 /\ sampled = NoSample

InitEmission(kinds) ==
    /\ op = "emission"
    /\ phase = "Initialized"
    /\ kind \in kinds
    /\ \E sh \in Shapes(kind) :
          /\ n_outcomes = sh[2]
          /\ X \in XSet(kind, sh[1], sh[2])
    /\ resp \in RespSet
    /\ resp_in = resp
    /\ pis = <<>>
    /\ log_eps = <<>>
    /\ n_params = -1
    /\ sampled = NoSample
    /\ IdleCoef /\ IdleModal /\ IdleParam

\* emission.m_step(X, resp)
MStep ==
    /\ op = "emission"
    /\ phase = "Initialized"
    /\ pis' = m_step(kind, X, resp)
    /\ phase' = "Fitted"
    /\ UNCHANGED <<op, kind, X, resp, resp_in, n_outcomes, log_eps, n_params, sampled, coefVars, modalVars, paramVars>>

\* emission.log_likelihood(X)
LogLikelihood ==
    /\ op = "emission"
    /\ phase = "Fitted"
    /\ log_eps = <<>>
    /\ log_eps' = log_likelihood(kind, X, pis)
    /\ UNCHANGED <<op, phase, kind, X, resp, resp_in, n_outcomes, pis, n_params, sampled, coefVars, modalVars, paramVars>>

\* emission.n_parameters (the lca classes have no such property)
NParameters ==
    /\ op = "emission"
    /\ phase = "Fitted"
    /\ kind \in {"stepmix.Bernoulli", "stepmix.BernoulliNan", "stepmix.Multinoulli"}
    /\ n_params = -1
    /\ n_params' = n_parameters(kind, pis)
    /\ UNCHANGED <<op, phase, kind, X, resp, resp_in, n_outcomes, pis, log_eps, sampled, coefVars, modalVars, paramVars>>

NextEmission == MStep \/ LogLikelihood \/ NParameters

SpecEmission == InitEmission(EmissionKinds) /\ [][NextEmission]_vars
SpecNan == InitEmission({"stepmix.BernoulliNan"}) /\ [][NextEmission]_vars
SpecMultinoulli == InitEmission({"stepmix.Multinoulli", "lca.Multinoulli"}) /\ [][NextEmission]_vars

(***************************************************************************)
(* Claims about the emission models                                        *)
(***************************************************************************)
Fitted == op = "emission" /\ phase = "Fitted"
\* K of the data: the number of features, or of one-hot blocks
NFeatures == IF IsMultinoulli(kind) THEN Len(X[1]) \div n_outcomes ELSE Len(X[1])
WithinClip(v) == v.k = "fin" /\ ~Less(v, ClipLo) /\ ~Less(ClipHi, v)
AllWithinClip(p) == \A i \in DOMAIN p : \A c \in DOMAIN p[i] : WithinClip(p[i][c])

\* sum of f over the finite set S
RECURSIVE SumOver(_, _)
SumOver(f, S) == IF S = {} THEN 0 ELSE LET a == CHOOSE b \in S : TRUE IN f[a] + SumOver(f, S \ {a})

\* C1: after Bernoulli.m_step and Multinoulli.m_step (lca and stepmix) every
\* entry of pis lies in [1e-15, 1 - 1e-15] and none is NaN, also when a class
\* has zero total responsibility mass.
C1_PisWithinClip ==
    (Fitted /\ kind \in {"stepmix.Bernoulli", "stepmix.Multinoulli", "lca.Bernoulli", "lca.Multinoulli"})
        => AllWithinClip(pis)

\* C2: after BernoulliNan.m_step every entry of pis lies in [1e-15, 1 - 1e-15]
\* and none is NaN.
C2_NanPisWithinClip ==
    (Fitted /\ kind = "stepmix.BernoulliNan") => AllWithinClip(pis)

\* C7: n_parameters is the number of free parameters: K*C for Bernoulli,
\* K*(L-1)*C for Multinoulli.
C7_FreeParameters ==
    (Fitted /\ n_params # -1) =>
        IF IsMultinoulli(kind)
        THEN n_params = NFeatures * (n_outcomes - 1) * n_components
        ELSE n_params = NFeatures * n_components

\* C8: after BernoulliNan.m_step, pis[i][c] is the class-c mass of the
\* individuals observed on feature i with X = 1 divided by the class-c mass of
\* the individuals observed on feature i (the float quotient: NaN when both
\* are zero); individuals missing on feature i enter neither sum.
C8_MaskedRatio ==
    (Fitted /\ kind = "stepmix.BernoulliNan") =>
        \A i \in 1..MaxK : \A c \in Classes :
            LET ones == {n \in Individuals : X[n][i] = 1}
                seen == {n \in Individuals : X[n][i] \in {0, 1}}
                num == SumOver([n \in Individuals |-> resp[n][c]], ones)
                den == SumOver([n \in Individuals |-> resp[n][c]], seen)
            IN IF den = 0 THEN pis[i][c].k = "nan"
               ELSE /\ pis[i][c].k = "fin"
                    /\ pis[i][c].e = 0
                    /\ pis[i][c].n * den = num * pis[i][c].d

\* a fit in which an individual with class-c mass is missing on a feature
\* that another individual with class-c mass has observed as 1
C8_Witness ==
    /\ Fitted /\ kind = "stepmix.BernoulliNan"
    /\ \E i \in 1..MaxK : \E c \in Classes : \E n, m \in Individuals :
          /\ X[n][i] = nan /\ resp[n][c] > 0
          /\ X[m][i] = 1 /\ resp[m][c] > 0
          /\ pis[i][c] = One

\* the sum of x log p + (1 - x) log(1 - p) over the features observed in row n
ObservedOnly(x, p0, n, c) ==
    LET p == ClipMatrix(p0, ClipLo, ClipHi)
    IN IF \E i \in 1..Len(p) : x[n][i] # nan /\ p[i][c].k = "nan"
       THEN LLNaN
       ELSE LLFin([i \in 1..Len(p) |-> IF x[n][i] = nan THEN <<0, 0>> ELSE <<x[n][i], 1 - x[n][i]>>])

\* C9: BernoulliNan.log_likelihood is, for every row and class, the sum over
\* the observed features only of x log(pis) + (1-x) log(1-pis); a missing
\* entry contributes 0; without missing entries it is Bernoulli.log_likelihood.
C9_MaskedLogLikelihood ==
    (Fitted /\ kind = "stepmix.BernoulliNan" /\ log_eps # <<>>) =>
        /\ \A n \in Individuals : \A c \in Classes : log_eps[n][c] = ObservedOnly(X, pis, n, c)
        /\ ~HasNan(X) => log_eps = Bernoulli_log_likelihood(X, pis)

\* C9 holds of every fit whose parameters are free of NaN: the failure above
\* comes from the NaN that BernoulliNan.m_step can store, not from the masks.
C9_MaskedWhenNoNaN ==
    (\A i \in DOMAIN pis : \A c \in DOMAIN pis[i] : pis[i][c].k # "nan") => C9_MaskedLogLikelihood

\* a + b of two finite values
Add(a, b) ==
    LET s == IF a.n * b.d + b.n * a.d = 0 THEN Zero ELSE Rat(a.n * b.d + b.n * a.d, a.d * b.d)
    IN [s EXCEPT !.e = a.e + b.e]

\* the sum of the L entries of block k of column c
RECURSIVE BlockSum(_, _, _, _, _)
BlockSum(p, L, k, c, l) == IF l = 0 THEN Zero ELSE Add(p[(k - 1) * L + l][c], BlockSum(p, L, k, c, l - 1))

PositiveMass == \A c \in Classes : ColSum(resp)[c] > 0
MultinoulliFitted == Fitted /\ IsMultinoulli(kind) /\ PositiveMass

\* class-c mass of the individuals with outcome l in block k
OutcomeMass(k, l, c) == SumOver([n \in Individuals |-> X[n][(k - 1) * n_outcomes + l] * resp[n][c]], Individuals)

\* C10 as stated: after Multinoulli.m_step on one-hot X and positive class
\* masses, the L entries of every block sum to 1 for every class.
C10_BlockSumsToOne ==
    MultinoulliFitted =>
        \A k \in 1..NFeatures : \A c \in Classes : BlockSum(pis, n_outcomes, k, c, n_outcomes) = One

\* C10 amended: the L entries of every block sum to 1 + m * 1e-15, where m
\* is the number of outcomes of the block without class mass, less one when a
\* single outcome holds the whole class mass; 0 <= m <= L - 2, and the sum is
\* exactly 1 when the clip moves no entry.
C10_BlockSumsToOneUpToClip ==
    MultinoulliFitted =>
        \A k \in 1..NFeatures : \A c \in Classes :
            LET s == BlockSum(pis, n_outcomes, k, c, n_outcomes)
                none == Cardinality({l \in 1..n_outcomes : OutcomeMass(k, l, c) = 0})
                whole == Cardinality({l \in 1..n_outcomes : OutcomeMass(k, l, c) = ColSum(resp)[c]})
            IN /\ s.k = "fin" /\ s.n = 1 /\ s.d = 1
               /\ s.e = none - whole
               /\ 0 <= s.e /\ s.e <= n_outcomes - 2
               /\ (\A l \in 1..n_outcomes : pis[(k - 1) * n_outcomes + l][c] \notin {ClipLo, ClipHi}) => s = One

\* a fit in which an outcome is never observed, its entry is moved to 1e-15,
\* and the other two outcomes of the block share the class mass
C10_Witness ==
    /\ MultinoulliFitted /\ n_outcomes = 3
    /\ \E c \in Classes : pis[1][c] = ClipLo /\ pis[2][c].e = 0 /\ pis[3][c].e = 0

(***************************************************************************)
(* stepmix.utils.identify_coef                                             *)
(***************************************************************************)
\* np.argsort(v)[1]: the indices that may stand second in an ascending sort
\* of v.  The default sort is not stable by contract, so equal values may
\* come in either order.
ArgsortSecond(v) ==
    {j \in DOMAIN v :
        /\ Cardinality({i \in DOMAIN v : v[i] < v[j]}) <= 1
        /\ Cardinality({i \in DOMAIN v : v[i] <= v[j]}) >= 2}

\* a slip: the subtraction reads the reference column while it is being
\* overwritten, so the columns right of it are left as they were
SubtractColumn_aliased(m, j) ==
    [r \in DOMAIN m |-> [c \in DOMAIN m[r] |-> IF c <= j THEN m[r][c] - m[r][j] ELSE m[r][c]]]

\* coef -= coef[:, closest_id].reshape((-1, 1)); numpy buffers the
\* overlapping operand, so every column sees the original reference column
SubtractColumn(m, j) ==
    [r \in DOMAIN m |-> [c \in DOMAIN m[r] |-> m[r][c] - m[r][j]]]

CoefSet ==
    UNION {[1..rows -> [1..cols -> (-MaxCoef)..MaxCoef]] :
              rows \in 1..demo_coef_rows, cols \in 2..demo_n_components}

InitCoef ==
    /\ op = "identify_coef"
    /\ phase = "called"
    /\ coef \in CoefSet
    /\ coef_in = coef
    /\ closest_id = 0
    /\ resp = <<>> /\ resp_in = <<>>
    /\ IdleEmission /\ IdleModal /\ IdleParam

\* identify_coef(coef)
identify_coef ==
    /\ op = "identify_coef"
    /\ phase = "called"
    /\ \E j \in ArgsortSecond(coef[1]) :
          /\ closest_id' = j
          /\ coef' = SubtractColumn(coef, j)
    /\ phase' = "returned"
    /\ UNCHANGED <<op, coef_in, resp, resp_in, emissionVars, modalVars, paramVars>>

SpecCoef == InitCoef /\ [][identify_coef]_vars

Abs(a) == IF a < 0 THEN -a ELSE a
CoefReturned == op = "identify_coef" /\ phase = "returned"

\* C3: identify_coef returns a matrix whose reference column is zero in every
\* row, every column being the input column less the input reference column,
\* so that the differences between class columns are those of the input.
C3_NullReference ==
    CoefReturned =>
        \A r \in DOMAIN coef :
            /\ coef[r][closest_id] = 0
            /\ \A c \in DOMAIN coef[r] : coef[r][c] = coef_in[r][c] - coef_in[r][closest_id]
            /\ \A a, b \in DOMAIN coef[r] : coef[r][a] - coef[r][b] = coef_in[r][a] - coef_in[r][b]

\* a call on two rows and three classes whose reference column was not zero
\* and stood left of another column
C3_Witness ==
    /\ CoefReturned
    /\ Len(coef) = 2 /\ Len(coef[1]) = 3
    /\ closest_id < 3
    /\ coef_in[1][closest_id] # 0 /\ coef_in[2][closest_id] # 0

\* C4: the reference is a class whose row-0 coefficient has the smallest
\* nonzero absolute value (exact zeros excluded), and the returned row 0 has a
\* 0 in that class's column.
C4_ClosestToZero ==
    CoefReturned =>
        LET nonzero == {c \in DOMAIN coef_in[1] : coef_in[1][c] # 0}
        IN /\ nonzero # {} =>
                /\ closest_id \in nonzero
                /\ \A c \in nonzero : Abs(coef_in[1][closest_id]) <= Abs(coef_in[1][c])
           /\ coef[1][closest_id] = 0

(***************************************************************************)
(* stepmix.utils.modal                                                     *)
(***************************************************************************)
\* a slip: the last index attaining the maximum
ArgMax_last(v) == CHOOSE j \in DOMAIN v : (\A i \in DOMAIN v : v[i] <= v[j]) /\ (\A i \in DOMAIN v : i > j => v[i] < v[j])

\* row.argmax(): the first index attaining the maximum
ArgMax(v) == CHOOSE j \in DOMAIN v : (\A i \in DOMAIN v : v[i] <= v[j]) /\ (\A i \in DOMAIN v : i < j => v[i] < v[j])

modal(r, cl) ==
    LET preds == [n \in DOMAIN r |-> ArgMax(r[n])]
        zeros == [n \in DOMAIN r |-> [c \in DOMAIN r[n] |-> Zero]]
        hot == [n \in DOMAIN r |-> [zeros[n] EXCEPT ![preds[n]] = One]]
    IN IF cl THEN ClipMatrix(hot, ClipLo, ClipHi) ELSE hot

ModalRows == {r \in [1..demo_n_components -> 0..Unit] : SumSeq(r, demo_n_components) = Unit}

InitModal ==
    /\ op = "modal"
    /\ phase = "called"
    /\ resp \in [Individuals -> ModalRows]
    /\ resp_in = resp
    /\ clip \in BOOLEAN
    /\ modal_resp = <<>>
    /\ IdleEmission /\ IdleCoef /\ IdleParam

\* modal(resp, clip)
Modal ==
    /\ op = "modal"
    /\ phase = "called"
    /\ modal_resp' = modal(resp, clip)
    /\ phase' = "returned"
    /\ UNCHANGED <<op, resp, resp_in, clip, emissionVars, coefVars, paramVars>>

SpecModal == InitModal /\ [][Modal]_vars

ModalReturned == op = "modal" /\ phase = "returned"

\* C5: with clip=False modal returns a matrix of the shape of resp with, in
\* every row, a 1 at the lowest column attaining the row maximum and 0
\* elsewhere; resp is not modified.
C5_ModalOneHot ==
    (ModalReturned /\ ~clip) =>
        /\ resp = resp_in
        /\ DOMAIN modal_resp = DOMAIN resp_in
        /\ \A n \in DOMAIN resp_in :
              /\ DOMAIN modal_resp[n] = DOMAIN resp_in[n]
              /\ \E j \in DOMAIN resp_in[n] :
                    /\ \A i \in DOMAIN resp_in[n] : resp_in[n][i] <= resp_in[n][j]
                    /\ \A i \in DOMAIN resp_in[n] : i < j => resp_in[n][i] < resp_in[n][j]
                    /\ modal_resp[n][j] = One
                    /\ \A i \in DOMAIN resp_in[n] : i # j => modal_resp[n][i] = Zero

\* a call without clip on a row whose maximum is attained twice, not at
\* the first column
C5_Witness ==
    /\ ModalReturned /\ ~clip
    /\ \E n \in DOMAIN resp_in :
          /\ resp_in[n][2] = resp_in[n][3] /\ resp_in[n][1] < resp_in[n][2]
          /\ modal_resp[n][2] = One

(***************************************************************************)
(* stepmix.utils.check_emission_param                                      *)
(***************************************************************************)
\* A descriptor is a str ([type |-> "str", name]), a dict of items
\* ([type |-> "dict", items], in iteration order) or anything else
\* ([type |-> "other"]).  An item is a dict ([type |-> "dict", has, model]:
\* has = its keys among 'model' and 'n_features', model = item['model'] when
\* present) or anything else ([type |-> "other"]).
Names == {"bernoulli", "multinoulli", "gaussian"}
KeySets == SUBSET {"bernoulli", "multinoulli"}

DictItems ==
    {[type |-> "dict", has |-> h, model |-> m] : h \in {{"model"}, {"model", "n_features"}}, m \in Names}
    \cup {[type |-> "dict", has |-> h, model |-> ""] : h \in {{}, {"n_features"}}}
Items == DictItems \cup {[type |-> "other", has |-> {}, model |-> ""]}

Descriptors ==
    {[type |-> "str", name |-> s, items |-> <<>>] : s \in Names}
    \cup {[type |-> "other", name |-> "", items |-> <<>>]}
    \cup {[type |-> "dict", name |-> "", items |-> it] : it \in UNION {[1..k -> Items] : k \in 0..MaxItems}}

\* check_in(choices, emission=value)
check_in(choices, value) == IF value \notin choices THEN "ValueError" ELSE "ok"

\* a slip: only an item lacking both keys is rejected
CheckItem_and(item, ks) ==
    IF item.type = "dict"
    THEN IF "model" \notin item.has /\ "n_features" \notin item.has
         THEN "ValueError"
         ELSE check_in(ks, item.model)
    ELSE "ValueError"

\* the body of the loop over descriptor.items()
CheckItem(item, ks) ==
    IF item.type = "dict"
    THEN IF "model" \notin item.has \/ "n_features" \notin item.has
         THEN "ValueError"
         ELSE check_in(ks, item.model)
    ELSE "ValueError"

\* the loop from item i on: the first failing item raises
RECURSIVE CheckItems(_, _, _)
CheckItems(its, ks, i) ==
    IF i > Len(its) THEN "ok"
    ELSE IF CheckItem(its[i], ks) = "ValueError" THEN "ValueError"
    ELSE CheckItems(its, ks, i + 1)

check_emission_param(d, ks) ==
    IF d.type = "str" THEN check_in(ks, d.name)
    ELSE IF d.type = "dict" THEN CheckItems(d.items, ks, 1)
    ELSE "ValueError"

InitParam ==
    /\ op = "check_emission_param"
    /\ phase = "called"
    /\ descriptor \in Descriptors
    /\ keys \in KeySets
    /\ outcome = "none"
    /\ resp = <<>> /\ resp_in = <<>>
    /\ IdleEmission /\ IdleCoef /\ IdleModal

\* check_emission_param(descriptor, keys)
CheckEmissionParam ==
    /\ op = "check_emission_param"
    /\ phase = "called"
    /\ outcome' = check_emission_param(descriptor, keys)
    /\ phase' = "returned"
    /\ UNCHANGED <<op, descriptor, keys, resp, resp_in, emissionVars, coefVars, modalVars>>

SpecParam == InitParam /\ [][CheckEmissionParam]_vars

MalformedItem(item, ks) ==
    \/ item.type # "dict"
    \/ "model" \notin item.has
    \/ "n_features" \notin item.has
    \/ item.model \notin ks

Malformed(d, ks) ==
    \/ d.type = "str" /\ d.name \notin ks
    \/ d.type \notin {"str", "dict"}
    \/ d.type = "dict" /\ \E i \in DOMAIN d.items : MalformedItem(d.items[i], ks)

RECURSIVE Prefix(_, _)
Prefix(pvals, j) == IF j = 0 THEN Zero ELSE Add(pvals[j], Prefix(pvals, j - 1))

\* random_state.multinomial(1, pvals) raises when sum(pvals[:-1]) > 1.0 + 1e-12
MultinomialRaises(pvals) == LET t == Prefix(pvals, Len(pvals) - 1) IN t.n > t.d

\* the outcomes one multinomial trial can give: outcome j is tried only
\* while the outcomes before it leave probability, and the last outcome
\* takes what remains
Outcomes(pvals) ==
    {j \in 1..Len(pvals) :
        /\ \A i \in 1..(j - 1) : Less(Prefix(pvals, i), One)
        /\ j < Len(pvals) => Less(Zero, pvals[j])}

\* np.isclose(v, 1): |v - 1| <= 1e-8 + 1e-5.  The rationals of the model lie
\* on a grid far coarser than that, so v is close to 1 when it is 1 up to
\* multiples of 1e-15.
IsClose1(v) == v.k = "fin" /\ v.n = v.d

\* pis[:, class_no].reshape(K, L)
Reshape(p, K, L, c) == [k \in 1..K |-> [l \in 1..L |-> p[(k - 1) * L + l][c]]]

\* the rows np.reshape(np.swapaxes(X, 0, 1), (n_samples, K*L)) can hold: block
\* k is the one-hot vector of the trial on feature_weights[k]
SampleRows(fw, K, L) ==
    {[j \in 1..(K * L) |-> IF f[((j - 1) \div L) + 1] = ((j - 1) % L) + 1 THEN 1 ELSE 0] :
        f \in {g \in [1..K -> 1..L] : \A k \in 1..K : g[k] \in Outcomes(fw[k])}}

Raised(err, c, n) == [status |-> err, class_no |-> c, n_samples |-> n, X |-> <<>>]

\* the part both versions share once K and L are known: reshape, one trial
\* per feature block and sample, re-interleave
SampleKL(p, K, L, c, n) ==
    IF K * L # Shape0(p) THEN {Raised("ValueError", c, n)}
    ELSE LET feature_weights == Reshape(p, K, L, c)
         IN IF \E k \in 1..K : MultinomialRaises(feature_weights[k])
            THEN {Raised("ValueError", c, n)}
            ELSE {[status |-> "ok", class_no |-> c, n_samples |-> n, X |-> x] :
                     x \in [1..n -> SampleRows(feature_weights, K, L)]}

\* stepmix Multinoulli.sample: K, L = self.get_KL()
Multinoulli_sample(p, L, c, n) == SampleKL(p, get_K(p, L), L, c, n)

\* 1 + np.where(np.isclose(np.cumsum(pis, axis=0)[:, 0], 1))[0][0]: the first
\* row at which the running sum of the first class's column is close to 1
\* (0 when there is none and the indexing raises)
Lca_InferL(p) ==
    LET hits == {j \in 1..Shape0(p) : IsClose1(Prefix([i \in 1..Shape0(p) |-> p[i][1]], j))}
    IN IF hits = {} THEN 0 ELSE CHOOSE j \in hits : \A i \in hits : j <= i

\* lca Multinoulli.sample
Lca_Multinoulli_sample(p, c, n) ==
    LET L == Lca_InferL(p)
    IN IF L = 0 THEN {Raised("IndexError", c, n)}
       ELSE SampleKL(p, Shape0(p) \div L, L, c, n)

AllFinite(p) == \A i \in DOMAIN p : \A c \in DOMAIN p[i] : p[i][c].k = "fin"

\* emission.sample(class_no, n_samples) of a Multinoulli model; sampling from
\* a table that holds NaN is left out
Sample ==
    /\ op = "emission"
    /\ phase = "Fitted"
    /\ IsMultinoulli(kind)
    /\ AllFinite(pis)
    /\ sampled = NoSample
    /\ \E c \in Classes : \E n \in 1..MaxSamples :
          sampled' \in (IF kind = "stepmix.Multinoulli"
                        THEN Multinoulli_sample(pis, n_outcomes, c, n)
                        ELSE Lca_Multinoulli_sample(pis, c, n))
    /\ UNCHANGED <<op, phase, kind, X, resp, resp_in, n_outcomes, pis, log_eps, n_params, coefVars, modalVars, paramVars>>

SpecSample == InitEmission({"stepmix.Multinoulli", "lca.Multinoulli"}) /\ [][MStep \/ Sample]_vars

\* the returned matrix has n_samples rows of K*L entries 0/1 with exactly
\* one active entry in each L-wide block
SampleIsOneHot ==
    /\ sampled.status = "ok"
    /\ Len(sampled.X) = sampled.n_samples
    /\ \A r \in 1..Len(sampled.X) :
          /\ Len(sampled.X[r]) = NFeatures * n_outcomes
          /\ \A j \in 1..Len(sampled.X[r]) : sampled.X[r][j] \in {0, 1}
          /\ \A k \in 1..NFeatures :
                Cardinality({l \in 1..n_outcomes : sampled.X[r][(k - 1) * n_outcomes + l] = 1}) = 1

\* C11: Multinoulli.sample (stepmix: L = n_outcomes; lca: L inferred from the
\* cumulative sum of the first class's column) returns an n_samples x K*L 0/1
\* matrix with exactly one active entry in each of the K L-wide blocks of
\* every row, for every fitted table whose blocks are simplexes over L outcomes.
C11_SampleOneHot ==
    (MultinoulliFitted /\ sampled.status # "none") => SampleIsOneHot

\* the stepmix version alone, which is given L, samples as C11 says
C11_StepmixSampleOneHot ==
    (MultinoulliFitted /\ kind = "stepmix.Multinoulli" /\ sampled.status # "none") => SampleIsOneHot

\* the lca version samples as C11 says whenever it infers the true L
C11_LcaSampleOneHotWhenLRight ==
    (MultinoulliFitted /\ kind = "lca.Multinoulli" /\ sampled.status # "none" /\ Lca_InferL(pis) = n_outcomes)
        => SampleIsOneHot

====
